---- MODULE Spec2Model ----
(***************************************************************************)
(* Model of jetson_stats_prometheus_collector.py: the process bootstrap    *)
(* (__main__), the CustomCollector life cycle (__init__ / cleanup) and the *)
(* generator CustomCollector.collect, which reads the live jtop session    *)
(* attribute by attribute and yields one metric family at a time.          *)
(***************************************************************************)
EXTENDS Integers, Sequences, FiniteSets, TLC

VARIABLES pcMain, listener, atexitReg, jetson, registered, closeCount,
          exitCause, stats, pass, updates

vars == <<pcMain, listener, atexitReg, jetson, registered, closeCount,
          exitCause, stats, pass, updates>>

\* ------------------------------------------------------------------ bounds
MaxVal == 1
MaxTemp == 1
MaxDays == 2
MaxCores == 9
MaxUpdates == 1

\* ------------------------------------------------- the jtop session state
Sensors == {"AO", "GPU", "Tdiode", "AUX", "CPU", "thermal", "Tboard"}
Rails == {"CPU", "CV", "GPU", "SOC", "SYS5V", "VDDRQ"}

BoardNames == <<"xavier", "orin", "nano">>
Str(v) == BoardNames[(v % 3) + 1]

Core(f) == [freq |-> [cur |-> f]]
Rail(v, n) == [power |-> 1000 + 10 * n + v, volt |-> 2000 + 10 * n + v,
               curr |-> 3000 + 10 * n + v]

\* A complete set of attributes of a started jtop object, as collect reads them.
Snap(v) ==
  [board |-> [platform |-> [Machine |-> Str(v), Distribution |-> Str(v + 1),
                            Release |-> Str(v + 2)],
              hardware |-> ("Jetpack" :> Str(v) @@ "L4T" :> Str(v + 1)
                            @@ "Module" :> Str(v + 2) @@ "Model" :> Str(v)
                            @@ "Codename" :> Str(v + 1) @@ "SoC" :> Str(v + 2)
                            @@ "CUDA Arch BIN" :> Str(v)
                            @@ "Serial Number" :> Str(v + 1))],
   nvpmodel |-> [name |-> Str(v)],
   uptime |-> [days |-> v, seconds |-> 10000 + v],
   cpu |-> [cpu |-> [i \in 1..8 |-> Core(100 * i + v)]],
   gpu |-> [gv11b |-> [status |-> [load |-> 40 + v]]],
   memory |-> [RAM |-> [used |-> 50 + v, shared |-> 60 + v, tot |-> 70 + v],
               SWAP |-> [used |-> 80 + v, tot |-> 90 + v]],
   disk |-> [used |-> 110 + v, total |-> 120 + v, available |-> 130 + v,
             available_no_root |-> 140 + v],
   fan |-> [tegra_pwmfan |-> [speed |-> 150 + v, rpm |-> 160 + v]],
   temperature |-> [k \in Sensors |-> 30 + v],
   power |-> [rail |-> ("CPU" :> Rail(v, 1) @@ "CV" :> Rail(v, 2)
                        @@ "GPU" :> Rail(v, 3) @@ "SOC" :> Rail(v, 4)
                        @@ "SYS5V" :> Rail(v, 5) @@ "VDDRQ" :> Rail(v, 6))]]

\* obj[path[1]][path[2]]..., or not ok when a key or index is absent
\* (KeyError, IndexError, AttributeError in the code).
RECURSIVE Get(_, _)
Get(obj, path) ==
  IF path = <<>> THEN [ok |-> TRUE, val |-> obj]
  ELSE IF Head(path) \in DOMAIN obj THEN Get(obj[Head(path)], Tail(path))
  ELSE [ok |-> FALSE, val |-> 0]

\* -------------------------------------------------- collect as a program
\* Every attribute read of self._jetson is one instruction, so that the
\* session can change between any two reads; yield hands the family over.
New(kind, name, help, labelKey) ==
  [op |-> "new", kind |-> kind, name |-> name, help |-> help,
   labelKey |-> labelKey]
Field(key, path) == [op |-> "field", key |-> key, path |-> path]
AddInfo(label) == [op |-> "addinfo", label |-> label]
Add(label, path) == [op |-> "add", label |-> label, path |-> path]
Load(reg, path) == [op |-> "load", reg |-> reg, path |-> path]
Calc == [op |-> "calc"]
AddReg(label, reg) == [op |-> "addreg", label |-> label, reg |-> reg]
Test(key) == [op |-> "test", key |-> key]
AddOpt(label, key) == [op |-> "addopt", label |-> label, key |-> key]
Yield == [op |-> "yield"]

BoardProgram ==
  << New("info", "jetson_info_board", "Board sys info", "board_info"),
     Field("machine", <<"board", "platform", "Machine">>),
     Field("distribution", <<"board", "platform", "Distribution">>),
     Field("release", <<"board", "platform", "Release">>),
     Field("jetpack", <<"board", "hardware", "Jetpack">>),
     Field("l4t", <<"board", "hardware", "L4T">>),
     Field("module", <<"board", "hardware", "Module">>),
     Field("type", <<"board", "hardware", "Model">>),
     Field("codename", <<"board", "hardware", "Codename">>),
     Field("soc", <<"board", "hardware", "SoC">>),
     Field("cuda_arch_bin", <<"board", "hardware", "CUDA Arch BIN">>),
     Field("serial_number", <<"board", "hardware", "Serial Number">>),
     AddInfo("info"), Yield >>

NvpmodeProgram ==
  << New("info", "jetson_nvpmode", "NV power mode", "nvpmode"),
     Field("mode", <<"nvpmodel", "name">>), AddInfo("mode"), Yield >>

UptimeProgram ==
  << New("gauge", "jetson_uptime", "System uptime", "uptime"),
     Load("days", <<"uptime", "days">>),
     Load("seconds", <<"uptime", "seconds">>),
     Calc,
     AddReg("days", "days"), AddReg("hours", "hours"),
     AddReg("minutes", "minutes"), Yield >>

NumCpuRecords == 8

\* Record cpu_k reads the list entry with Python index k-1, which is the
\* k-th element of the sequence.
CpuLabels ==
  <<"cpu_1", "cpu_2", "cpu_3", "cpu_4", "cpu_5", "cpu_6", "cpu_7", "cpu_8">>
CpuIndexOffByOne(k) == k + 1
CpuIndex(k) == k
CpuProgram ==
  << New("gauge", "jetson_usage_cpu", "CPU % schedutil", "cpu") >>
  \o [k \in 1..NumCpuRecords |->
        Add(CpuLabels[k], <<"cpu", "cpu", CpuIndex(k), "freq", "cur">>)]
  \o << Yield >>

GpuProgram ==
  << New("gauge", "jetson_usage_gpu", "GPU % schedutil", "gpu"),
     Add("val", <<"gpu", "gv11b", "status", "load">>), Yield >>

RamProgram ==
  << New("gauge", "jetson_usage_ram", "Memory usage", "ram"),
     Add("used", <<"memory", "RAM", "used">>),
     Add("shared", <<"memory", "RAM", "shared">>),
     Add("total", <<"memory", "RAM", "tot">>), Yield >>

DiskProgram ==
  << New("gauge", "jetson_usage_disk", "Disk space usage", "disk"),
     Add("used", <<"disk", "used">>),
     Add("total", <<"disk", "total">>),
     Add("available", <<"disk", "available">>),
     Add("available_no_root", <<"disk", "available_no_root">>), Yield >>

FanProgram ==
  << New("gauge", "jetson_usage_fan", "Fan usage", "fan"),
     Add("speed", <<"fan", "tegra_pwmfan", "speed">>),
     Add("rpm", <<"fan", "tegra_pwmfan", "rpm">>), Yield >>

SwapProgram ==
  << New("gauge", "jetson_usage_swap", "Swapfile usage", "swap"),
     Add("used", <<"memory", "SWAP", "used">>),
     Add("total", <<"memory", "SWAP", "tot">>), Yield >>

\* x['K'] if 'K' in x else 0: the membership test, then the read.
TempSensors ==
  << <<"ao", "AO">>, <<"gpu", "GPU">>, <<"tdiode", "Tdiode">>,
     <<"aux", "AUX">>, <<"cpu", "CPU">>, <<"thermal", "thermal">>,
     <<"tboard", "Tboard">> >>
RECURSIVE TempReads(_)
TempReads(n) ==
  IF n = 0 THEN <<>>
  ELSE TempReads(n - 1)
       \o << Test(TempSensors[n][2]),
             AddOpt(TempSensors[n][1], TempSensors[n][2]) >>
TemperatureProgram ==
  << New("gauge", "jetson_temperatures", "Sensor temperatures",
         "temperature") >>
  \o TempReads(Len(TempSensors)) \o << Yield >>

RailLabels ==
  << <<"cpu", "CPU">>, <<"cv", "CV">>, <<"gpu", "GPU">>, <<"soc", "SOC">>,
     <<"sys5v", "SYS5V">>, <<"vddrq", "VDDRQ">> >>
RailReads(quantity) ==
  [n \in 1..Len(RailLabels) |->
     Add(RailLabels[n][1], <<"power", "rail", RailLabels[n][2], quantity>>)]

PowerProgram ==
  << New("gauge", "jetson_usage_power", "Power usage", "power") >>
  \o RailReads("power") \o << Yield >>
VoltageProgram ==
  << New("gauge", "jetson_usage_voltage_levels", "Voltage", "voltage") >>
  \o RailReads("volt") \o << Yield >>
CurrentProgram ==
  << New("gauge", "jetson_usage_current_values", "Current", "current") >>
  \o RailReads("curr") \o << Yield >>

ProgramWithoutSwap ==
  BoardProgram \o NvpmodeProgram \o UptimeProgram \o CpuProgram
  \o GpuProgram \o RamProgram \o DiskProgram \o FanProgram
  \o TemperatureProgram \o PowerProgram \o VoltageProgram \o CurrentProgram
Program ==
  BoardProgram \o NvpmodeProgram \o UptimeProgram \o CpuProgram
  \o GpuProgram \o RamProgram \o DiskProgram \o FanProgram \o SwapProgram
  \o TemperatureProgram \o PowerProgram \o VoltageProgram \o CurrentProgram

\* --------------------------------------------------- one step of collect
NoFamily == [kind |-> "", name |-> "", help |-> "", labelKey |-> "",
             records |-> <<>>]
NoRegs == [days |-> 0, seconds |-> 0, hours |-> 0, minutes |-> 0,
           present |-> FALSE]
IdlePass == [status |-> "idle", live |-> FALSE, pc |-> 0, cur |-> NoFamily,
             info |-> <<>>, regs |-> NoRegs, out |-> <<>>]

Hours(seconds) == seconds \div 3600
MinutesNoMod(seconds) == seconds \div 60
Minutes(seconds) == (seconds \div 60) % 60

\* An uncaught exception leaves the generator: the family under
\* construction is dropped, what was yielded stays with the consumer.
RaiseDropsAll(p) == [p EXCEPT !.status = "raised", !.out = <<>>,
                              !.cur = NoFamily]
Raise(p) == [p EXCEPT !.status = "raised", !.cur = NoFamily]

AddMetric(p, label, value) ==
  [p EXCEPT !.cur.records = Append(@, <<label, value>>),
            !.pc = p.pc + 1]

\* A required read: an absent key or index raises.
ReadOrZero(p, s, label, path) ==
  AddMetric(p, label, IF Get(s, path).ok THEN Get(s, path).val ELSE 0)
ReadRequired(p, s, label, path) ==
  IF Get(s, path).ok THEN AddMetric(p, label, Get(s, path).val)
  ELSE Raise(p)

\* The value branch of the conditional expression of lines 159-165.
ReadOptionalOmits(p, s, label, key) ==
  IF p.regs.present
  THEN ReadRequired(p, s, label, <<"temperature", key>>)
  ELSE [p EXCEPT !.pc = p.pc + 1]
ReadOptional(p, s, label, key) ==
  IF p.regs.present
  THEN ReadRequired(p, s, label, <<"temperature", key>>)
  ELSE AddMetric(p, label, 0)

YieldFamily(p) ==
  [p EXCEPT !.out = Append(p.out, p.cur), !.cur = NoFamily,
            !.pc = p.pc + 1,
            !.status = IF p.pc = Len(Program) THEN "done" ELSE "running"]

ExecStep(p, s) ==
  LET ins == Program[p.pc] IN
  CASE ins.op = "new" ->
         [p EXCEPT !.cur = [kind |-> ins.kind, name |-> ins.name,
                            help |-> ins.help, labelKey |-> ins.labelKey,
                            records |-> <<>>],
                   !.info = <<>>, !.pc = p.pc + 1]
    [] ins.op = "field" ->
         IF Get(s, ins.path).ok
         THEN [p EXCEPT !.info = Append(@, <<ins.key, Get(s, ins.path).val>>),
                        !.pc = p.pc + 1]
         ELSE Raise(p)
    [] ins.op = "addinfo" -> AddMetric(p, ins.label, p.info)
    [] ins.op = "add" -> ReadRequired(p, s, ins.label, ins.path)
    [] ins.op = "load" ->
         [p EXCEPT !.regs[ins.reg] = Get(s, ins.path).val, !.pc = p.pc + 1]
    [] ins.op = "calc" ->
         [p EXCEPT !.regs.hours = Hours(p.regs.seconds),
                   !.regs.minutes = Minutes(p.regs.seconds),
                   !.pc = p.pc + 1]
    [] ins.op = "addreg" -> AddMetric(p, ins.label, p.regs[ins.reg])
    [] ins.op = "test" ->
         [p EXCEPT !.regs.present = (ins.key \in DOMAIN s.temperature),
                   !.pc = p.pc + 1]
    [] ins.op = "addopt" -> ReadOptional(p, s, ins.label, ins.key)
    [] ins.op = "yield" -> YieldFamily(p)

\* The generator body up to its first suspension: the ok() test of line 44.
BeginIgnoresOk(ok) == [IdlePass EXCEPT !.status = "running", !.live = ok,
                                       !.pc = 1]
Begin(ok) ==
  IF ok THEN [IdlePass EXCEPT !.status = "running", !.live = TRUE, !.pc = 1]
  ELSE [IdlePass EXCEPT !.status = "done", !.live = FALSE]

\* collect run to its end against one unchanging session state.
RECURSIVE RunFrom(_, _)
RunFrom(p, s) ==
  IF p.status = "running" THEN RunFrom(ExecStep(p, s), s) ELSE p
Render(s) == RunFrom(Begin(TRUE), s)

\* ------------------------------------------------ session states explored
RECURSIVE Remove(_, _)
Remove(obj, path) ==
  IF Len(path) = 1
  THEN [k \in (DOMAIN obj) \ {path[1]} |-> obj[k]]
  ELSE [obj EXCEPT ![path[1]] = Remove(@, Tail(path))]

ReadInstrs == {i \in 1..Len(Program) : Program[i].op \in {"field", "add"}}

\* One required key absent, at any level below the jtop attribute.
\* (a list has no absent index below its length: level 3 of a cpu path
\* is shortened by CoreInputs instead)
RemovalDepths(i) ==
  IF Program[i].path[1] = "cpu" THEN {2, 4, 5} ELSE 2..Len(Program[i].path)
MissingInputs ==
  UNION {{Remove(Snap(v), SubSeq(Program[i].path, 1, n)) :
            v \in 0..MaxVal, n \in RemovalDepths(i)} : i \in ReadInstrs}

\* Every subset of the sensors, reading one common value or all different.
SensorRank ==
  "AO" :> 11 @@ "GPU" :> 12 @@ "Tdiode" :> 13 @@ "AUX" :> 14 @@ "CPU" :> 15
  @@ "thermal" :> 16 @@ "Tboard" :> 17
TempMaps ==
  UNION {{[k \in S |-> v] : v \in 0..MaxTemp} \cup {[k \in S |-> SensorRank[k]]} :
           S \in SUBSET Sensors}
TempInputs == {[Snap(0) EXCEPT !.temperature = t] : t \in TempMaps}

SecondsSamples ==
  {h * 3600 + m * 60 + r : h \in {0, 1, 2, 23}, m \in {0, 1, 46, 59},
                           r \in {0, 40, 59}}
UptimeInputs ==
  {[Snap(0) EXCEPT !.uptime = [days |-> d, seconds |-> sec]] :
     d \in 0..MaxDays, sec \in SecondsSamples}

CoreFreqs(n) ==
  {[i \in 1..n |-> Core(100 * i)], [i \in 1..n |-> Core(100 * (n + 1 - i))],
   [i \in 1..n |-> Core(0)]}
CoreInputs ==
  {[Snap(0) EXCEPT !.cpu.cpu = c] : c \in UNION {CoreFreqs(n) : n \in 0..MaxCores}}

Complete == {Snap(v) : v \in 0..MaxVal}
Inputs == Complete \cup MissingInputs \cup TempInputs \cup UptimeInputs
          \cup CoreInputs
MainStats == Complete \cup {Remove(Snap(0), <<"power", "rail", "VDDRQ">>)}

\* ----------------------------------------------------------- the process
\* Interpreter exit after an unhandled exception or SystemExit: the atexit
\* handlers run; cleanup (lines 39-41) calls close() on self._jetson, which
\* exists only if jtop() returned.  A signal with the default disposition
\* ends the process without running them.
ExitProcess(cause, runAtexit, reg, jet) ==
  /\ pcMain' = "exited"
  /\ exitCause' = cause
  /\ closeCount' = IF runAtexit /\ reg /\ jet # "none"
                   THEN closeCount + 1 ELSE closeCount
  /\ atexitReg' = reg
  /\ jetson' = jet
  /\ listener' = FALSE
  /\ pass' = IdlePass
  /\ updates' = 0
  /\ UNCHANGED <<registered, stats>>

Init ==
  /\ pcMain = "start"
  /\ listener = FALSE
  /\ atexitReg = FALSE
  /\ jetson = "none"
  /\ registered = FALSE
  /\ closeCount = 0
  /\ exitCause = "none"
  /\ stats \in MainStats
  /\ pass = IdlePass
  /\ updates = 0

\* line 205: start_http_server(args.port)
StartHttpServer ==
  /\ pcMain = "start"
  /\ \E ok \in BOOLEAN :
       IF ok
       THEN /\ listener' = TRUE
            /\ pcMain' = "construct"
            /\ UNCHANGED <<atexitReg, jetson, registered, closeCount,
                           exitCause, stats, pass, updates>>
       ELSE ExitProcess("error", TRUE, atexitReg, jetson)

\* line 206, CustomCollector(): lines 35-37
Construct ==
  /\ pcMain = "construct"
  /\ \E outcome \in {"ok", "jtop_raises", "start_raises"} :
       CASE outcome = "ok" ->
              /\ atexitReg' = TRUE
              /\ jetson' = "started"
              /\ pcMain' = "register"
              /\ UNCHANGED <<listener, registered, closeCount, exitCause,
                             stats, pass, updates>>
         [] outcome = "jtop_raises" ->
              ExitProcess("error", TRUE, TRUE, "none")
         [] outcome = "start_raises" ->
              ExitProcess("error", TRUE, TRUE, "created")

\* line 206, REGISTRY.register(...)
Register ==
  /\ pcMain = "register"
  /\ \E ok \in BOOLEAN :
       IF ok
       THEN /\ registered' = TRUE
            /\ pcMain' = "loop"
            /\ UNCHANGED <<listener, atexitReg, jetson, closeCount,
                           exitCause, stats, pass, updates>>
       ELSE ExitProcess("error", TRUE, atexitReg, jetson)

\* No handler is installed: SIGINT raises KeyboardInterrupt in the main
\* thread (lines 207-208 do not catch it), SIGTERM ends the process.
Signal ==
  /\ pcMain # "exited"
  /\ \E sig \in {"SIGINT", "SIGTERM"} :
       ExitProcess(sig, sig = "SIGINT", atexitReg, jetson)

\* The jtop reader thread replaces the session's attributes.
Update ==
  /\ pcMain # "exited"
  /\ jetson = "started"
  /\ pass.status = "running" => updates < MaxUpdates
  /\ \E s \in MainStats \ {stats} : stats' = s
  /\ updates' = IF pass.status = "running" THEN updates + 1 ELSE updates
  /\ UNCHANGED <<pcMain, listener, atexitReg, jetson, registered,
                 closeCount, exitCause, pass>>

\* A scrape: the registry calls collect() and starts iterating.
CollectStart ==
  /\ pcMain = "loop"
  /\ listener
  /\ registered
  /\ pass.status # "running"
  /\ \E ok \in BOOLEAN : pass' = Begin(ok)
  /\ updates' = 0
  /\ UNCHANGED <<pcMain, listener, atexitReg, jetson, registered,
                 closeCount, exitCause, stats>>

\* The iteration resumes the generator for one more read or yield.
CollectStep ==
  /\ pcMain = "loop"
  /\ pass.status = "running"
  /\ pass' = ExecStep(pass, stats)
  /\ UNCHANGED <<pcMain, listener, atexitReg, jetson, registered,
                 closeCount, exitCause, stats, updates>>

Next ==
  \/ StartHttpServer
  \/ Construct
  \/ Register
  \/ Signal
  \/ Update
  \/ CollectStart
  \/ CollectStep

Spec == Init /\ [][Next]_vars

\* A running process with an open session in any explored state, scraped
\* without the session changing during the pass.
InitRender ==
  /\ pcMain = "loop"
  /\ listener = TRUE
  /\ atexitReg = TRUE
  /\ jetson = "started"
  /\ registered = TRUE
  /\ closeCount = 0
  /\ exitCause = "none"
  /\ stats \in Inputs
  /\ pass = IdlePass
  /\ updates = 0

NextRender ==
  \/ CollectStart
  \/ CollectStep

SpecRender == InitRender /\ [][NextRender]_vars

\* ------------------------------------------------------------ properties
Ended == pass.status \in {"done", "raised"}

FamilyNames ==
  <<"jetson_info_board", "jetson_nvpmode", "jetson_uptime",
    "jetson_usage_cpu", "jetson_usage_gpu", "jetson_usage_ram",
    "jetson_usage_disk", "jetson_usage_fan", "jetson_usage_swap",
    "jetson_temperatures", "jetson_usage_power",
    "jetson_usage_voltage_levels", "jetson_usage_current_values">>
FamilyLabelKeys ==
  <<"board_info", "nvpmode", "uptime", "cpu", "gpu", "ram", "disk", "fan",
    "swap", "temperature", "power", "voltage", "current">>
PowerGroupNames ==
  {"jetson_usage_power", "jetson_usage_voltage_levels",
   "jetson_usage_current_values"}

\* The family (1..13) an instruction of collect belongs to.
FamilyOf ==
  [i \in 1..Len(Program) |->
     Cardinality({j \in 1..(i - 1) : Program[j].op = "yield"}) + 1]
FamilyIndex(i) == FamilyOf[i]
RequiredPresent(s) == \A i \in ReadInstrs : Get(s, Program[i].path).ok
MissingIn(s, k) ==
  \E i \in ReadInstrs : FamilyIndex(i) = k /\ ~Get(s, Program[i].path).ok
NamesFixed ==
  \A i \in 1..Len(pass.out) :
    /\ i <= Len(FamilyNames)
    /\ pass.out[i].name = FamilyNames[i]
    /\ pass.out[i].labelKey = FamilyLabelKeys[i]

\* C1: when ok() is false at the start of a pass, collect yields no family
\* at all, whatever the session's fields contain, and ends without raising.
C1_DeadSessionYieldsNothing ==
  (pass.status # "idle" /\ ~pass.live)
    => (pass.status = "done" /\ pass.out = <<>> /\ pass.cur = NoFamily)
C1_Witness ==
  /\ pass.status = "done"
  /\ ~pass.live
  /\ pass.out = <<>>
  /\ stats = Snap(1)

\* C2: the families of a finished pass are the render of one single session
\* state, even when the session is updated while collect runs.
C2_SingleSnapshot ==
  (Ended /\ pass.live)
    => \E s \in MainStats : /\ pass.out = Render(s).out
                            /\ pass.status = Render(s).status

\* C3 as stated: a complete pass on a live session with every required
\* field present yields exactly 12 families with fixed names and label keys.
C3_TwelveFamilies ==
  (Ended /\ pass.live /\ RequiredPresent(stats))
    => (pass.status = "done" /\ Len(pass.out) = 12 /\ NamesFixed)
\* C3 amended: such a pass yields exactly 13 families, and the name and the
\* label key at each position are constants independent of the field values.
C3_ThirteenFamilies ==
  (Ended /\ pass.live /\ RequiredPresent(stats))
    => (pass.status = "done" /\ Len(pass.out) = 13 /\ NamesFixed)
C3_Witness ==
  /\ pass.status = "done"
  /\ pass.live
  /\ stats = Snap(1)
  /\ Len(pass.out) = 13
  /\ pass.out[13].name = "jetson_usage_current_values"

\* C4: the HTTP listener is running only once the session has been opened
\* successfully.
C4_ListenerAfterOpen == listener => jetson = "started"

\* C5: when the process has ended, close() has run exactly once on the
\* session if one was created (and not at all if none was).
C5_CloseExactlyOnce ==
  pcMain = "exited"
    => closeCount = (IF jetson # "none" THEN 1 ELSE 0)

\* C6: the temperature family always has the 7 records ao, gpu, tdiode, aux,
\* cpu, thermal, tboard in this order, each with the mapping's value or 0 if
\* the sensor is absent, and no pass fails in the temperature family.
C6_Sensors ==
  << <<"ao", "AO">>, <<"gpu", "GPU">>, <<"tdiode", "Tdiode">>,
     <<"aux", "AUX">>, <<"cpu", "CPU">>, <<"thermal", "thermal">>,
     <<"tboard", "Tboard">> >>
C6_Expected(t) ==
  [n \in 1..7 |->
     <<C6_Sensors[n][1],
       IF C6_Sensors[n][2] \in DOMAIN t THEN t[C6_Sensors[n][2]] ELSE 0>>]
C6_TemperatureDefaults ==
  /\ Len(pass.out) >= 10
       => /\ pass.out[10].name = "jetson_temperatures"
          /\ pass.out[10].records = C6_Expected(stats.temperature)
  /\ pass.status = "raised" => Len(pass.out) # 9
C6_Witness ==
  /\ Len(pass.out) >= 10
  /\ DOMAIN stats.temperature = {"CPU", "GPU"}
  /\ stats.temperature["CPU"] = 1
  /\ pass.out[10].records[1] = <<"ao", 0>>
  /\ pass.out[10].records[5] = <<"cpu", 1>>

\* C7: with one of the six rails absent from an otherwise complete live
\* session, the pass ends by raising, and none of the power, voltage and
\* current families is yielded (nor the absent rail rendered as 0).
C7_RailAbsent(s) ==
  /\ "rail" \in DOMAIN s.power
  /\ \E r \in Rails : r \notin DOMAIN s.power.rail
  /\ \A i \in ReadInstrs :
       Program[i].path[1] # "power" => Get(s, Program[i].path).ok
C7_MissingRailFailsGroup ==
  (pass.live /\ C7_RailAbsent(stats))
    => /\ \A i \in 1..Len(pass.out) : pass.out[i].name \notin PowerGroupNames
       /\ Ended => (pass.status = "raised" /\ Len(pass.out) = 10)
C7_Witness ==
  /\ pass.status = "raised"
  /\ pass.live
  /\ C7_RailAbsent(stats)
  /\ "VDDRQ" \notin DOMAIN stats.power.rail
  /\ Len(pass.out) = 10

\* C8: with at least 8 per-core entries the CPU family has the 8 records
\* cpu_1..cpu_8, record k with the current frequency of core index k-1;
\* with fewer than 8 entries the pass raises and yields no CPU family.
C8_Labels ==
  <<"cpu_1", "cpu_2", "cpu_3", "cpu_4", "cpu_5", "cpu_6", "cpu_7", "cpu_8">>
C8_CoresUsable(s) ==
  /\ "cpu" \in DOMAIN s.cpu
  /\ \A k \in DOMAIN s.cpu.cpu :
       /\ "freq" \in DOMAIN s.cpu.cpu[k]
       /\ "cur" \in DOMAIN s.cpu.cpu[k].freq
  /\ \A i \in ReadInstrs : FamilyIndex(i) < 4 => Get(s, Program[i].path).ok
C8_CpuFamily ==
  (pass.live /\ C8_CoresUsable(stats))
    => IF Len(stats.cpu.cpu) >= 8
       THEN /\ Len(pass.out) >= 4
              => /\ pass.out[4].name = "jetson_usage_cpu"
                 /\ pass.out[4].records =
                      [k \in 1..8 |->
                         <<C8_Labels[k], stats.cpu.cpu[k].freq.cur>>]
            /\ pass.status = "raised" => Len(pass.out) >= 4
       ELSE /\ \A i \in 1..Len(pass.out) :
                 pass.out[i].name # "jetson_usage_cpu"
            /\ Ended => (pass.status = "raised" /\ Len(pass.out) = 3)
C8_WitnessEight ==
  /\ pass.status = "done"
  /\ pass.live
  /\ Len(stats.cpu.cpu) = 9
  /\ stats.cpu.cpu[1].freq.cur = 900
  /\ pass.out[4].records[8] = <<"cpu_8", 200>>
C8_WitnessSix ==
  /\ pass.status = "raised"
  /\ pass.live
  /\ C8_CoresUsable(stats)
  /\ Len(stats.cpu.cpu) = 6
  /\ Len(pass.out) = 3

\* C9: the uptime family has the records days, hours, minutes with days as
\* given, hours = s div 3600 and minutes = (s div 60) mod 60, so that
\* 0 <= hours <= 23, 0 <= minutes <= 59 and the three records bound the
\* total number of seconds within one minute.
C9_Uptime ==
  Len(pass.out) >= 3
    => LET d == stats.uptime.days
           sec == stats.uptime.seconds
           r == pass.out[3].records
           total == d * 86400 + sec
           shown == r[1][2] * 86400 + r[2][2] * 3600 + r[3][2] * 60
       IN /\ pass.out[3].name = "jetson_uptime"
          /\ r = << <<"days", d>>, <<"hours", sec \div 3600>>,
                    <<"minutes", (sec \div 60) % 60>> >>
          /\ r[2][2] \in 0..23
          /\ r[3][2] \in 0..59
          /\ shown <= total
          /\ total < shown + 60
C9_Witness ==
  /\ Len(pass.out) >= 3
  /\ stats.uptime = [days |-> 2, seconds |-> 10000]
  /\ pass.out[3].records =
       << <<"days", 2>>, <<"hours", 2>>, <<"minutes", 46>> >>

\* C10: a pass that raises in family k has yielded exactly the families
\* before k, each as a pass on a complete session with the same fields
\* yields it, and nothing of family k or later.
C10_AgreeBefore(s, c, k) ==
  /\ \A i \in 1..Len(Program) :
       (FamilyIndex(i) < k /\ Program[i].op \in {"field", "add", "load"})
         => Get(s, Program[i].path) = Get(c, Program[i].path)
  /\ k > 10 => s.temperature = c.temperature
C10_FailurePrefix ==
  pass.status = "raised"
    => LET k == Len(pass.out) + 1
       IN /\ k <= 13
          /\ MissingIn(stats, k)
          /\ \A j \in 1..(k - 1) : ~MissingIn(stats, j)
          /\ pass.cur = NoFamily
          /\ \E c \in Complete :
               /\ C10_AgreeBefore(stats, c, k)
               /\ Render(c).status = "done"
               /\ pass.out = SubSeq(Render(c).out, 1, k - 1)
C10_Witness ==
  /\ pass.status = "raised"
  /\ Len(pass.out) = 11
  /\ pass.out[11].name = "jetson_usage_power"
  /\ "volt" \notin DOMAIN stats.power.rail["GPU"]

====
